---------------------------- MODULE Spec2Model ----------------------------
(* A model of the GraphLibrary facade (source/graph.js) over the grapher   *)
(* graph model and its layered layout.  The definition store (addNode,     *)
(* addCluster, addEdge, on) and render() are translated from graph.js; the *)
(* grapher.Graph operations and the layout engine, whose code is not part  *)
(* of the sources, follow their API documentation and the specification.   *)
EXTENDS Integers, Sequences, FiniteSets, TLC

VARIABLES
    options,          \* this.options
    nodes,            \* this._nodes     (Map, in insertion order)
    clusters,         \* this._clusters  (Map, in insertion order)
    edges,            \* this._edges     (Array)
    listeners,        \* this._eventListeners, as (eventType, callback) pairs
    last,             \* outcome of the most recent call, as its caller sees it
    graphs,           \* every grapher.Graph created so far
    grapherInstance,  \* this.grapherInstance: index into graphs, 0 for null
    container,        \* children of this.container (svg elements)
    runs,             \* the render() invocations, in the order they started
    delivered,        \* the _emit calls made by the most recent click, in order
    elems,            \* nodes, argument rows and edges driven directly
    body,             \* children of document.body (download links)
    exported,         \* the downloads saveSvg started, in order
    edgeShape         \* an edge driven directly: its waypoints and its two paths

vars == <<options, nodes, clusters, edges, listeners, last,
          graphs, grapherInstance, container, runs, delivered, elems,
          body, exported, edgeShape>>

defVars == <<nodes, clusters, edges, listeners>>
renderVars == <<graphs, grapherInstance, container, runs>>
outVars == <<body, exported, edgeShape>>
uiVars == <<delivered, elems, outVars>>

-----------------------------------------------------------------------------
(* Bounds of the model *)

MaxEdges == 2
MaxListeners == 1
MaxRuns == 2
MaxHandlers == 2

-----------------------------------------------------------------------------
(* Values *)

NoId == ""              \* a missing (falsy) id, from or to
NoParent == "none"      \* an absent `parent` option
Root == "\\x00"         \* grapher.Graph's key for the top level

ApiIds == {"A", "K"}
NodeIds == {"A", "B", "C"}
ClusterIds == {"K", "L"}
GraphIds == {"A", "B", "K", "L"}
UnknownId == "Z"
EventTypes == {"node:click", "edge:click"}
ClickEventTypes == {"node:click", "edge:click", "node:argument:click"}
Directions == {"TB", "BT", "LR", "RL"}   \* the documented values of options.direction

RECURSIVE SeqToSet(_)
SeqToSet(s) == IF s = <<>> THEN {} ELSE {Head(s)} \cup SeqToSet(Tail(s))

Keys(defs) == {defs[i].id : i \in DOMAIN defs}

Get(defs, id) == defs[CHOOSE i \in DOMAIN defs : defs[i].id = id]

\* The last call: its name, its id arguments and how it ended.
Call(op, ids, outcome) == [op |-> op, id |-> ids, outcome |-> outcome]

-----------------------------------------------------------------------------
(* GraphLibrary: the definition store *)

DefaultOptions(direction, nodeSep, rankSep, compound) ==
    [direction |-> direction, nodeSep |-> nodeSep,
     rankSep |-> rankSep, compound |-> compound]

IdUsed(id) == id \in Keys(nodes) \/ id \in Keys(clusters)

AddNodeNoClusterCheck(id, parent) ==
    /\ id # NoId
    /\ IF id \in Keys(nodes)
       THEN /\ last' = Call("addNode", <<id>>, "warned")
            /\ UNCHANGED nodes
       ELSE /\ nodes' = Append(nodes, [id |-> id, parent |-> parent])
            /\ last' = Call("addNode", <<id>>, "ok")
    /\ UNCHANGED <<options, clusters, edges, listeners, renderVars, uiVars>>

AddNode(id, parent) ==
    /\ IF id = NoId
       THEN /\ last' = Call("addNode", <<id>>, "threw")
            /\ UNCHANGED nodes
       ELSE IF IdUsed(id)
       THEN /\ last' = Call("addNode", <<id>>, "warned")
            /\ UNCHANGED nodes
       ELSE /\ nodes' = Append(nodes, [id |-> id, parent |-> parent])
            /\ last' = Call("addNode", <<id>>, "ok")
    /\ UNCHANGED <<options, clusters, edges, listeners, renderVars, uiVars>>

AddClusterOverwrite(id, parent) ==
    /\ options.compound
    /\ id # NoId
    /\ IF id \in Keys(clusters)
       THEN /\ clusters' = [i \in DOMAIN clusters |->
                              IF clusters[i].id = id
                              THEN [id |-> id, parent |-> parent]
                              ELSE clusters[i]]
            /\ last' = Call("addCluster", <<id>>, "warned")
       ELSE /\ clusters' = Append(clusters, [id |-> id, parent |-> parent])
            /\ last' = Call("addCluster", <<id>>, "ok")
    /\ UNCHANGED <<options, nodes, edges, listeners, renderVars, uiVars>>

AddCluster(id, parent) ==
    /\ IF ~options.compound
       THEN /\ last' = Call("addCluster", <<id>>, "warned")
            /\ UNCHANGED clusters
       ELSE IF id = NoId
       THEN /\ last' = Call("addCluster", <<id>>, "threw")
            /\ UNCHANGED clusters
       ELSE IF IdUsed(id)
       THEN /\ last' = Call("addCluster", <<id>>, "warned")
            /\ UNCHANGED clusters
       ELSE /\ clusters' = Append(clusters, [id |-> id, parent |-> parent])
            /\ last' = Call("addCluster", <<id>>, "ok")
    /\ UNCHANGED <<options, nodes, edges, listeners, renderVars, uiVars>>

AddEdgeStrict(from, to, minlen) ==
    /\ Len(edges) < MaxEdges
    /\ IF from = NoId \/ to = NoId \/ ~IdUsed(from) \/ ~IdUsed(to)
       THEN /\ last' = Call("addEdge", <<from, to>>, "threw")
            /\ UNCHANGED edges
       ELSE /\ edges' = Append(edges, [from |-> from, to |-> to, minlen |-> minlen])
            /\ last' = Call("addEdge", <<from, to>>, "ok")
    /\ UNCHANGED <<options, nodes, clusters, listeners, renderVars, uiVars>>

AddEdgeRecordsFirst(from, to, minlen) ==
    /\ Len(edges) < MaxEdges
    /\ edges' = Append(edges, [from |-> from, to |-> to, minlen |-> minlen])
    /\ last' = Call("addEdge", <<from, to>>,
                    IF from = NoId \/ to = NoId THEN "threw" ELSE "ok")
    /\ UNCHANGED <<options, nodes, clusters, listeners, renderVars, uiVars>>

AddEdge(from, to, minlen) ==
    /\ Len(edges) < MaxEdges
    /\ IF from = NoId \/ to = NoId
       THEN /\ last' = Call("addEdge", <<from, to>>, "threw")
            /\ UNCHANGED edges
       ELSE /\ edges' = Append(edges, [from |-> from, to |-> to, minlen |-> minlen])
            /\ last' = Call("addEdge", <<from, to>>, "ok")
    /\ UNCHANGED <<options, nodes, clusters, listeners, renderVars, uiVars>>

\* How many render() runs have completed: kept with each listener as a record
\* of when it was registered, the code stores the callback alone.
Rendered == Cardinality({r \in DOMAIN runs : runs[r].state = "done"})

Register(eventType, isFunction) ==
    /\ IF ~isFunction
       THEN /\ last' = Call("on", <<eventType>>, "warned")
            /\ UNCHANGED listeners
       ELSE /\ listeners' = Append(listeners, [type |-> eventType, cb |-> Len(listeners) + 1,
                                                since |-> Rendered])
            /\ last' = Call("on", <<eventType>>, "ok")
    /\ UNCHANGED <<options, nodes, clusters, edges, renderVars, uiVars>>

On(eventType, isFunction) ==
    /\ Len(listeners) < MaxListeners
    /\ Register(eventType, isFunction)

ListenersFor(eventType) == SelectSeq(listeners, LAMBDA l : l.type = eventType)

CallbacksOf(ls) == [i \in DOMAIN ls |-> ls[i].cb]

\* The callbacks of cbs up to and including the first one that throws.
RECURSIVE UntilThrow(_, _)
UntilThrow(cbs, throwers) ==
    IF cbs = <<>> THEN <<>>
    ELSE IF Head(cbs) \in throwers THEN <<Head(cbs)>>
    ELSE <<Head(cbs)>> \o UntilThrow(Tail(cbs), throwers)

EmitNoCatch(eventType, data, throwers) ==
    LET cbs == CallbacksOf(ListenersFor(eventType)) IN
    [type |-> eventType, data |-> data, throwers |-> throwers,
     calls  |-> UntilThrow(cbs, throwers),
     errors |-> <<>>,
     threw  |-> \E i \in DOMAIN cbs : cbs[i] \in throwers]

\* One _emit(eventType, data) in which the callbacks in `throwers` throw:
\* the callbacks called, in order, the errors logged on the console, and
\* whether _emit itself threw.
Emit(eventType, data, throwers) ==
    LET cbs == CallbacksOf(ListenersFor(eventType)) IN
    [type |-> eventType, data |-> data, throwers |-> throwers,
     calls  |-> cbs,
     errors |-> SelectSeq(cbs, LAMBDA cb : cb \in throwers),
     threw  |-> FALSE]

-----------------------------------------------------------------------------
(* Parent declarations of the definitions, and ancestry over a parent map *)

RECURSIVE AncestorsIn(_, _, _)
AncestorsIn(pm, id, fuel) ==
    IF fuel = 0 \/ id \notin DOMAIN pm \/ pm[id] \in {NoParent, Root} THEN {}
    ELSE {pm[id]} \cup AncestorsIn(pm, pm[id], fuel - 1)

IsForest(pm) ==
    \A id \in DOMAIN pm : id \notin AncestorsIn(pm, id, Cardinality(DOMAIN pm) + 1)

DeclaredParents ==
    [id \in Keys(nodes) \cup Keys(clusters) |->
        IF id \in Keys(nodes) THEN Get(nodes, id).parent ELSE Get(clusters, id).parent]

-----------------------------------------------------------------------------
(* grapher.Graph: nodes, edges and the parent mapping of a compound graph *)

NewGraph(compound) ==
    [compound |-> compound,
     nodes    |-> <<>>,              \* node names, in insertion order
     label    |-> <<>>,              \* name -> the grapher.Node set for it
     parent   |-> <<>>,              \* name -> parent name, or Root
     edges    |-> <<>>,              \* [v, w, minlen], in insertion order
     options  |-> <<>>,
     built    |-> FALSE,
     measured |-> FALSE,
     laidOut  |-> FALSE,
     layout   |-> <<>>,              \* ranks and boxes assigned by layout()
     styledBy |-> <<>>,              \* runs whose _applyCustomStyles styled it
     updatedBy |-> <<>>,             \* runs whose continuation called update()
     rendered |-> <<>>,              \* name -> the box update() gave its element
     edgeClickBy |-> <<>>]           \* runs that attached edge click listeners

\* A grapher.Node as render() prepares it; headerClick: a click handler is
\* registered on its header entry.
NewNode(name, isCluster, headerClick) ==
    [name |-> name, isCluster |-> isCluster, headerClick |-> headerClick,
     args |-> <<>>,                  \* the arguments of its list, with activate set
     width |-> 0, height |-> 0]

HasNode(g, key) == key \in SeqToSet(g.nodes)

SetNode(g, name, node) ==
    IF HasNode(g, name)
    THEN [g EXCEPT !.label = [n \in DOMAIN g.label |-> IF n = name THEN node ELSE g.label[n]]]
    ELSE [g EXCEPT !.nodes = Append(g.nodes, name),
                   !.label = [n \in DOMAIN g.label \cup {name} |->
                                 IF n = name THEN node ELSE g.label[n]],
                   !.parent = IF g.compound
                              THEN [n \in DOMAIN g.parent \cup {name} |->
                                       IF n = name THEN Root ELSE g.parent[n]]
                              ELSE g.parent]

SelfParentOnly(g, node, parent) == node = parent

\* Walking up from `parent` meets `node`.
CreatesCycle(g, node, parent) ==
    node = parent \/ node \in AncestorsIn(g.parent, parent, Cardinality(DOMAIN g.parent) + 1)

\* The result of a call that may throw: the graph it leaves and whether it threw.
Threw(g) == [threw |-> TRUE, graph |-> g]
Returned(g) == [threw |-> FALSE, graph |-> g]

\* `lenient` resolves what the documentation leaves open: whether a name
\* that is not a node of the graph is accepted or makes the call throw.
SetParent(g, node, parent, lenient) ==
    IF ~g.compound THEN Threw(g)
    ELSE IF CreatesCycle(g, node, parent) THEN Threw(g)
    ELSE IF (~HasNode(g, node) \/ ~HasNode(g, parent)) /\ ~lenient THEN Threw(g)
    ELSE Returned([g EXCEPT !.parent = [n \in DOMAIN g.parent \cup {node} |->
                                           IF n = node THEN parent ELSE g.parent[n]]])

SetEdge(g, edge) ==
    IF ~HasNode(g, edge.v) \/ ~HasNode(g, edge.w) THEN Threw(g)
    ELSE IF \E i \in DOMAIN g.edges : g.edges[i].v = edge.v /\ g.edges[i].w = edge.w
    THEN Returned(g)
    ELSE Returned([g EXCEPT !.edges = Append(g.edges, edge)])

-----------------------------------------------------------------------------
(* grapher.Graph.measure and layout: the layered layout of the graph model *)

ClusterMargin == 10

\* The blocks of each node, top to bottom, each with the size its content
\* measures to (text metrics): node A has a header and an argument list, the
\* other nodes a header only, a cluster has no block.
Blocks ==
    [n \in NodeIds \cup ClusterIds \cup ApiIds \cup GraphIds |->
        CASE n = "A" -> <<[kind |-> "header", width |-> 40, height |-> 12],
                          [kind |-> "list", width |-> 30, height |-> 7]>>
          [] n = "B" -> <<[kind |-> "header", width |-> 60, height |-> 40]>>
          [] n = "C" -> <<[kind |-> "header", width |-> 20, height |-> 20]>>
          [] OTHER   -> <<>>]

\* The separator drawn between two blocks of a node.
BlockSeparator == 1

\* The size of a stack of blocks: as wide as its widest block, as high as
\* its blocks and the separators between them.
RECURSIVE StackWidth(_)
StackWidth(bs) ==
    IF bs = <<>> THEN 0
    ELSE LET w == StackWidth(Tail(bs)) IN IF Head(bs).width > w THEN Head(bs).width ELSE w

RECURSIVE StackHeight(_)
StackHeight(bs) ==
    IF bs = <<>> THEN 0
    ELSE Head(bs).height + (IF Tail(bs) = <<>> THEN 0 ELSE BlockSeparator)
         + StackHeight(Tail(bs))

\* The measure phase: the size of each node's block stack.
MeasuredSize ==
    [n \in NodeIds \cup ClusterIds \cup ApiIds \cup GraphIds |->
        [width |-> StackWidth(Blocks[n]), height |-> StackHeight(Blocks[n])]]

Measure(g) ==
    [g EXCEPT !.measured = TRUE,
              !.label = [n \in DOMAIN g.label |->
                           [g.label[n] EXCEPT !.width = MeasuredSize[n].width,
                                              !.height = MeasuredSize[n].height]]]

Max(S) == CHOOSE x \in S : \A y \in S : y <= x
Min(S) == CHOOSE x \in S : \A y \in S : x <= y

IdxSeq(n) == [i \in 1..n |-> i]

Children(g, p) ==
    {n \in SeqToSet(g.nodes) : g.compound /\ n \in DOMAIN g.parent /\ g.parent[n] = p}

IsLeaf(g, n) == Children(g, n) = {}

TopLevel(g, n) ==
    ~g.compound \/ n \notin DOMAIN g.parent \/ ~HasNode(g, g.parent[n])

\* Stage 0: edges that close a cycle are found by a depth-first search in
\* insertion order and laid out reversed.
RECURSIVE Visit(_, _, _), VisitEdges(_, _, _)
Visit(E, v, st) ==
    IF v \in st.visited THEN st
    ELSE LET out == SelectSeq(IdxSeq(Len(E)), LAMBDA i : E[i].v = v)
             st1 == VisitEdges(E, out, [st EXCEPT !.visited = @ \cup {v},
                                                  !.stack = @ \cup {v}])
         IN [st1 EXCEPT !.stack = @ \ {v}]
VisitEdges(E, es, st) ==
    IF es = <<>> THEN st
    ELSE IF E[Head(es)].w \in st.stack
    THEN VisitEdges(E, Tail(es), [st EXCEPT !.fas = @ \cup {Head(es)}])
    ELSE VisitEdges(E, Tail(es), Visit(E, E[Head(es)].w, st))

RECURSIVE VisitAll(_, _, _)
VisitAll(E, names, st) ==
    IF names = <<>> THEN st ELSE VisitAll(E, Tail(names), Visit(E, Head(names), st))

FeedbackEdges(g) ==
    VisitAll(g.edges, g.nodes, [visited |-> {}, stack |-> {}, fas |-> {}]).fas

Acyclic(g) ==
    LET fas == FeedbackEdges(g) IN
    [i \in DOMAIN g.edges |->
        IF i \in fas
        THEN [v |-> g.edges[i].w, w |-> g.edges[i].v, minlen |-> g.edges[i].minlen]
        ELSE g.edges[i]]

\* Stage 1: longest-path ranks over the acyclic edges.
RECURSIVE RankIn(_, _, _)
RankIn(D, v, fuel) ==
    LET ins == {i \in DOMAIN D : D[i].w = v /\ D[i].v # v} IN
    IF ins = {} \/ fuel = 0 THEN 0
    ELSE Max({RankIn(D, D[i].v, fuel - 1) + D[i].minlen : i \in ins})

Rank(g) ==
    LET D == Acyclic(g) IN
    [n \in SeqToSet(g.nodes) |-> RankIn(D, n, Len(g.nodes))]

\* Stage 2: order within a rank: insertion order, a cluster's members together.
RECURSIVE Preorder(_, _)
Preorder(g, names) ==
    IF names = <<>> THEN <<>>
    ELSE LET n == Head(names)
             kids == SelectSeq(g.nodes, LAMBDA m : m \in Children(g, n))
         IN <<n>> \o Preorder(g, kids) \o Preorder(g, Tail(names))

LeafOrder(g) ==
    SelectSeq(Preorder(g, SelectSeq(g.nodes, LAMBDA n : TopLevel(g, n))),
              LAMBDA n : IsLeaf(g, n))

RECURSIVE SumSeq(_)
SumSeq(s) == IF s = <<>> THEN 0 ELSE Head(s) + SumSeq(Tail(s))

\* Stage 3: coordinates.  `cross` and `along` are the axes across and along
\* the rank direction; boxes are [left, right, top, bottom].
Horizontal(opts) == opts.direction # "vertical"

AlongSize(g, n) == IF Horizontal(g.options) THEN g.label[n].width ELSE g.label[n].height
CrossSize(g, n) == IF Horizontal(g.options) THEN g.label[n].height ELSE g.label[n].width

RankThickness(g, rank, r) ==
    LET at == {n \in SeqToSet(LeafOrder(g)) : rank[n] = r} IN
    IF at = {} THEN 0 ELSE Max({AlongSize(g, n) : n \in at})

AlongStart(g, rank, r) ==
    SumSeq([q \in 1..r |-> RankThickness(g, rank, q - 1) + g.options.ranksep])

CrossStart(g, rank, n) ==
    LET order == LeafOrder(g)
        k == CHOOSE i \in DOMAIN order : order[i] = n
        before == SelectSeq(SubSeq(order, 1, k - 1), LAMBDA m : rank[m] = rank[n])
    IN SumSeq([i \in DOMAIN before |-> CrossSize(g, before[i]) + g.options.nodesep])

LeafBox(g, rank, n) ==
    LET a0 == AlongStart(g, rank, rank[n]) + (RankThickness(g, rank, rank[n]) - AlongSize(g, n)) \div 2
        a1 == a0 + AlongSize(g, n)
        c0 == CrossStart(g, rank, n)
        c1 == c0 + CrossSize(g, n)
    IN CASE g.options.direction = "vertical" ->
                [left |-> c0, right |-> c1, top |-> a0, bottom |-> a1]
         [] g.options.direction = "RL" ->
                [left |-> 0 - a1, right |-> 0 - a0, top |-> c0, bottom |-> c1]
         [] OTHER ->
                [left |-> a0, right |-> a1, top |-> c0, bottom |-> c1]

Hull(boxes) ==
    [left  |-> Min({b.left : b \in boxes}),  right  |-> Max({b.right : b \in boxes}),
     top   |-> Min({b.top : b \in boxes}),   bottom |-> Max({b.bottom : b \in boxes})]

Inflate(b, m) ==
    [left |-> b.left - m, right |-> b.right + m, top |-> b.top - m, bottom |-> b.bottom + m]

RECURSIVE BoxOf(_, _, _)
BoxOf(g, rank, n) ==
    IF IsLeaf(g, n) THEN LeafBox(g, rank, n)
    ELSE Inflate(Hull({BoxOf(g, rank, c) : c \in Children(g, n)}), ClusterMargin)

\* An edge that ends at a node with children cannot be ranked.
Rankable(g) ==
    \A i \in DOMAIN g.edges : IsLeaf(g, g.edges[i].v) /\ IsLeaf(g, g.edges[i].w)

Layout(g) ==
    LET rank == Rank(g) IN
    [rank |-> rank,
     box  |-> [n \in SeqToSet(g.nodes) |-> BoxOf(g, rank, n)]]

-----------------------------------------------------------------------------
(* GraphLibrary.render *)

Unplaced == "unplaced"   \* an element updated from a node without coordinates

RECURSIVE SetClusterNodes(_, _)
SetClusterNodes(g, defs) ==
    IF defs = <<>> THEN g
    ELSE SetClusterNodes(SetNode(g, Head(defs).id, NewNode(Head(defs).id, TRUE, FALSE)), Tail(defs))

\* nodeOpts.arguments, an optional field of a node definition.
ArgumentsOf(def) == IF "arguments" \in DOMAIN def THEN def.arguments ELSE <<>>

RegularNode(def) == [NewNode(def.id, FALSE, TRUE) EXCEPT !.args = ArgumentsOf(def)]

RECURSIVE SetRegularNodes(_, _)
SetRegularNodes(g, defs) ==
    IF defs = <<>> THEN g
    ELSE SetRegularNodes(SetNode(g, Head(defs).id, RegularNode(Head(defs))), Tail(defs))

RECURSIVE SetParents(_, _, _)
SetParents(res, defs, lenient) ==
    IF res.threw \/ defs = <<>> THEN res
    ELSE IF Head(defs).parent \in {NoParent, NoId} THEN SetParents(res, Tail(defs), lenient)
    ELSE SetParents(SetParent(res.graph, Head(defs).id, Head(defs).parent, lenient),
                    Tail(defs), lenient)

SetClusterParentsOnly(g, lenient) ==
    IF options.compound THEN SetParents(Returned(g), clusters, lenient) ELSE Returned(g)

SetDeclaredParentsAlways(g, lenient) ==
    SetParents(SetParents(Returned(g), clusters, lenient), nodes, lenient)

\* The definitions, each without its parent unless the parent's definition
\* precedes it.
EarlierOnly(defs) ==
    [i \in DOMAIN defs |->
        IF \E j \in 1..(i - 1) : defs[j].id = defs[i].parent
        THEN defs[i] ELSE [defs[i] EXCEPT !.parent = NoParent]]

SetParentsDeclaredEarlier(g, lenient) ==
    IF options.compound
    THEN SetParents(SetParents(Returned(g), EarlierOnly(clusters), lenient), nodes, lenient)
    ELSE Returned(g)

SetDeclaredParents(g, lenient) ==
    IF options.compound
    THEN SetParents(SetParents(Returned(g), clusters, lenient), nodes, lenient)
    ELSE Returned(g)

\* gEdge.id is set only when the definition gives an id; gEdge.label is
\* edgeOpts.label || ''.
EdgeId(def) == IF "id" \in DOMAIN def /\ def.id # NoId THEN def.id ELSE "undefined"
EdgeLabel(def) == IF "label" \in DOMAIN def THEN def.label ELSE ""

GraphEdge(def, minlen) ==
    [v |-> def.from, w |-> def.to, minlen |-> minlen, id |-> EdgeId(def), label |-> EdgeLabel(def)]

EdgeMinlenAsGiven(def) == def.minlen

EdgeMinlen(def) == IF def.minlen = 0 THEN 1 ELSE def.minlen

RECURSIVE SetEdgesUntilUnresolved(_, _)
SetEdgesUntilUnresolved(g, defs) ==
    IF defs = <<>> THEN g
    ELSE IF ~HasNode(g, Head(defs).from) \/ ~HasNode(g, Head(defs).to) THEN g
    ELSE SetEdgesUntilUnresolved(
             SetEdge(g, GraphEdge(Head(defs), EdgeMinlen(Head(defs)))).graph, Tail(defs))

RECURSIVE SetResolvedEdges(_, _)
SetResolvedEdges(g, defs) ==
    IF defs = <<>> THEN g
    ELSE IF ~HasNode(g, Head(defs).from) \/ ~HasNode(g, Head(defs).to)
    THEN SetResolvedEdges(g, Tail(defs))
    ELSE SetResolvedEdges(
             SetEdge(g, GraphEdge(Head(defs), EdgeMinlen(Head(defs)))).graph, Tail(defs))

LayoutOptionsSwapped(opts) ==
    [direction |-> IF opts.direction \in {"TB", "BT"} THEN "vertical" ELSE opts.direction,
     nodesep   |-> opts.rankSep,
     ranksep   |-> opts.nodeSep]

LayoutOptions(opts) ==
    [direction |-> IF opts.direction \in {"TB", "BT"} THEN "vertical" ELSE opts.direction,
     nodesep   |-> opts.nodeSep,
     ranksep   |-> opts.rankSep]

ApplyCustomStyles(g, r) == [g EXCEPT !.styledBy = Append(@, r)]

Update(g, r) ==
    [g EXCEPT !.updatedBy = Append(@, r),
              !.rendered = IF g.laidOut THEN g.layout.box
                           ELSE [n \in SeqToSet(g.nodes) |-> Unplaced]]

AttachNoEdgeListeners(g, r) == g

AttachEventListeners(g, r) == [g EXCEPT !.edgeClickBy = Append(@, r)]

\* The phases of the graph model a run goes through up to its await, in the
\* order of the calls: build(document, svg), measure(), layout().
PhasesBeforeAwait == <<"build", "measure", "layout">>

RenderStartKeepsContent(lenient) ==
    /\ Len(runs) < MaxRuns
    /\ LET r  == Len(runs) + 1
           gi == Len(graphs) + 1
           g2 == SetRegularNodes(SetClusterNodes(NewGraph(options.compound), clusters), nodes)
           p  == SetDeclaredParents(g2, lenient)
           g4 == SetResolvedEdges(p.graph, edges)
           g7 == Measure([g4 EXCEPT !.options = LayoutOptions(options), !.built = TRUE])
       IN /\ grapherInstance' = gi
          /\ IF p.threw
             THEN /\ graphs' = Append(graphs, p.graph)
                  /\ container' = <<>>
                  /\ runs' = Append(runs, [graph |-> gi, svg |-> 0, state |-> "threw",
                                            phases |-> <<>>])
                  /\ last' = Call("render", <<ToString(r)>>, "threw")
             ELSE /\ graphs' = Append(graphs, g7)
                  /\ container' = Append(container, r)
                  /\ runs' = Append(runs, [graph |-> gi, svg |-> r, state |-> "awaiting",
                                            phases |-> PhasesBeforeAwait])
                  /\ last' = Call("render", <<ToString(r)>>, "pending")
    /\ UNCHANGED <<options, defVars, uiVars>>

RenderStartDrainsEdges(lenient) ==
    /\ Len(runs) < MaxRuns
    /\ LET r  == Len(runs) + 1
           gi == Len(graphs) + 1
           g2 == SetRegularNodes(SetClusterNodes(NewGraph(options.compound), clusters), nodes)
           p  == SetDeclaredParents(g2, lenient)
           g4 == SetResolvedEdges(p.graph, edges)
           g7 == Measure([g4 EXCEPT !.options = LayoutOptions(options), !.built = TRUE])
       IN /\ grapherInstance' = gi
          /\ IF p.threw
             THEN /\ graphs' = Append(graphs, p.graph)
                  /\ container' = <<>>
                  /\ runs' = Append(runs, [graph |-> gi, svg |-> 0, state |-> "threw",
                                            phases |-> <<>>])
                  /\ last' = Call("render", <<ToString(r)>>, "threw")
             ELSE /\ graphs' = Append(graphs, g7)
                  /\ container' = <<r>>
                  /\ runs' = Append(runs, [graph |-> gi, svg |-> r, state |-> "awaiting",
                                            phases |-> PhasesBeforeAwait])
                  /\ last' = Call("render", <<ToString(r)>>, "pending")
    /\ edges' = <<>>
    /\ UNCHANGED <<options, nodes, clusters, listeners, uiVars>>

\* render() up to its await: the container is cleared, the graph model is
\* built from the definitions, built into a new svg, measured, and its
\* layout is requested.  A setParent that throws ends the run before the svg
\* is created.
RenderStart(lenient) ==
    /\ Len(runs) < MaxRuns
    /\ LET r  == Len(runs) + 1
           gi == Len(graphs) + 1
           g2 == SetRegularNodes(SetClusterNodes(NewGraph(options.compound), clusters), nodes)
           p  == SetDeclaredParents(g2, lenient)
           g4 == SetResolvedEdges(p.graph, edges)
           g7 == Measure([g4 EXCEPT !.options = LayoutOptions(options), !.built = TRUE])
       IN /\ grapherInstance' = gi
          /\ IF p.threw
             THEN /\ graphs' = Append(graphs, p.graph)
                  /\ container' = <<>>
                  /\ runs' = Append(runs, [graph |-> gi, svg |-> 0, state |-> "threw",
                                            phases |-> <<>>])
                  /\ last' = Call("render", <<ToString(r)>>, "threw")
             ELSE /\ graphs' = Append(graphs, g7)
                  /\ container' = <<r>>
                  /\ runs' = Append(runs, [graph |-> gi, svg |-> r, state |-> "awaiting",
                                            phases |-> PhasesBeforeAwait])
                  /\ last' = Call("render", <<ToString(r)>>, "pending")
    /\ UNCHANGED <<options, defVars, uiVars>>

LayoutSucceeded == ""
LayoutCancelled == "graph-layout-cancelled"
LayoutError == "error"
LayoutOutcomes == {LayoutSucceeded, LayoutCancelled, LayoutError}

\* The layout itself: it assigns ranks and coordinates to the graph it was
\* called on only when it succeeds.
Laid(g, outcome) ==
    IF outcome = LayoutSucceeded THEN [g EXCEPT !.laidOut = TRUE, !.layout = Layout(g)] ELSE g

ContinueIgnoringCancel(gs, r, outcome) ==
    IF outcome = LayoutError THEN gs
    ELSE [gs EXCEPT ![grapherInstance] =
              AttachEventListeners(Update(ApplyCustomStyles(@, r), r), r)]

\* The rest of render() after the await, on the graphs as the layout left
\* them: styles, update and listeners go to this.grapherInstance.
Continue(gs, r, outcome) ==
    IF outcome # LayoutSucceeded THEN gs
    ELSE [gs EXCEPT ![grapherInstance] =
              AttachEventListeners(Update(ApplyCustomStyles(@, r), r), r)]

PhasesAfterAwaitNoReturn(outcome) ==
    IF outcome = LayoutError THEN <<>> ELSE <<"update">>

\* The phases a run goes through after its await: update(), unless the run
\* returned because the layout was cancelled or failed.
PhasesAfterAwait(outcome) ==
    IF outcome = LayoutSucceeded THEN <<"update">> ELSE <<>>

\* The promise render() returned, as its caller sees it: an async function
\* that returns fulfils its promise with undefined, one that throws rejects it.
PromiseOf(state) ==
    CASE state = "awaiting" -> [status |-> "pending", value |-> "none"]
      [] state = "threw"    -> [status |-> "rejected", value |-> "Error"]
      [] OTHER              -> [status |-> "fulfilled", value |-> "undefined"]

RunState(outcome) ==
    CASE outcome = LayoutSucceeded -> "done"
      [] outcome = LayoutCancelled -> "cancelled"
      [] OTHER -> "failed"

\* The layout of run r resolves and the run resumes after its await.
LayoutResolve(r, outcome) ==
    /\ r \in DOMAIN runs
    /\ runs[r].state = "awaiting"
    /\ outcome = LayoutSucceeded => Rankable(graphs[runs[r].graph])
    /\ LET gi == runs[r].graph
           laid == [graphs EXCEPT ![gi] = Laid(@, outcome)]
       IN graphs' = Continue(laid, r, outcome)
    /\ runs' = [runs EXCEPT ![r].state = RunState(outcome),
                            ![r].phases = @ \o PhasesAfterAwait(outcome)]
    /\ last' = Call("render", <<ToString(r)>>, RunState(outcome))
    /\ UNCHANGED <<options, defVars, uiVars, grapherInstance, container>>

-----------------------------------------------------------------------------
(* Clicks on the elements of the svg in the container *)

\* Run r built the svg the container shows.
Visible(r) == r \in DOMAIN runs /\ runs[r].svg \in SeqToSet(container)

\* A click that made the _emit calls `emissions`.
Click(target, emissions) ==
    /\ delivered' = emissions
    /\ last' = Call("click", target,
                    IF \E i \in DOMAIN emissions : emissions[i].threw THEN "threw" ELSE "ok")
    /\ UNCHANGED <<options, defVars, renderVars, elems, outVars>>

Throwers(eventType) == SUBSET SeqToSet(CallbacksOf(ListenersFor(eventType)))

\* A click on the header of node n: the handler set in render step 2.
ClickHeader(r, n) ==
    /\ Visible(r)
    /\ LET g == graphs[runs[r].graph] IN HasNode(g, n) /\ g.label[n].headerClick
    /\ \E t \in Throwers("node:click") :
          Click(<<"header", ToString(r), n>>, <<Emit("node:click", <<n>>, t)>>)

\* A click on the background of the argument list of node n.
ClickArgumentList(r, n) ==
    /\ Visible(r)
    /\ LET g == graphs[runs[r].graph] IN HasNode(g, n) /\ g.label[n].args # <<>>
    /\ \E t \in Throwers("node:click") :
          Click(<<"arguments", ToString(r), n>>, <<Emit("node:click", <<n>>, t)>>)

\* A click on argument i of node n: argument.activate.
ClickArgument(r, n, i) ==
    /\ Visible(r)
    /\ LET g == graphs[runs[r].graph] IN HasNode(g, n) /\ i \in DOMAIN g.label[n].args
    /\ LET a == graphs[runs[r].graph].label[n].args[i] IN
       \E t \in Throwers("node:argument:click") :
          Click(<<"argument", ToString(r), n, a.name>>,
                <<Emit("node:argument:click", <<n, a.name, a.value>>, t)>>)

\* A click on edge i: one _emit for every click listener that
\* _attachEventListeners added to the edge.
ClickEdge(r, i) ==
    /\ Visible(r)
    /\ i \in DOMAIN graphs[runs[r].graph].edges
    /\ LET g == graphs[runs[r].graph]
           e == g.edges[i]
       IN \E t \in Throwers("edge:click") :
             Click(<<"edge", ToString(r), e.v, e.w>>,
                   [k \in DOMAIN g.edgeClickBy |->
                       Emit("edge:click", <<e.v, e.w, e.id, e.label>>, t)])

-----------------------------------------------------------------------------
(* grapher.Node, grapher.Argument and grapher.Edge driven one at a time: the *)
(* measure, layout and update phases of a node, and the select and hover     *)
(* state of every element                                                    *)

NodeElements == {"A", "B"}
RowElement == "A.x"          \* the argument row x of node A
EdgeElement == "A->B"
ElementIds == NodeElements \cup {RowElement, EdgeElement}

NothingDrawn == [x |-> 0, y |-> 0, width |-> 0, height |-> 0]

NewElement ==
    [measured |-> FALSE, laidOut |-> FALSE,
     width |-> 0, height |-> 0,      \* fixed by measure
     x |-> 0, y |-> 0,               \* fixed by layout
     drawn |-> NothingDrawn,         \* what update put on the surface
     selected |-> FALSE, hovered |-> FALSE]

NewElements == [e \in ElementIds |-> NewElement]

\* The centre the layout gives a node.
LaidPosition ==
    [n \in NodeElements |-> IF n = "A" THEN [x |-> 20, y |-> 10] ELSE [x |-> 30, y |-> 90]]

Raised(e) == [elem |-> e, outcome |-> "RenderPrecondition"]
Done(e) == [elem |-> e, outcome |-> "ok"]

NodeMeasureAccumulating(n, e) ==
    Done([e EXCEPT !.measured = TRUE,
                   !.width = MeasuredSize[n].width,
                   !.height = e.height + MeasuredSize[n].height])

NodeMeasure(n, e) ==
    Done([e EXCEPT !.measured = TRUE,
                   !.width = MeasuredSize[n].width, !.height = MeasuredSize[n].height])

NodeLayout(n, e) ==
    IF ~e.measured THEN Raised(e)
    ELSE Done([e EXCEPT !.laidOut = TRUE, !.x = LaidPosition[n].x, !.y = LaidPosition[n].y])

NodeUpdateUnchecked(n, e) ==
    Done([e EXCEPT !.drawn = [x |-> e.x, y |-> e.y, width |-> e.width, height |-> e.height]])

NodeUpdate(n, e) ==
    IF ~e.measured \/ ~e.laidOut THEN Raised(e)
    ELSE Done([e EXCEPT !.drawn = [x |-> e.x, y |-> e.y, width |-> e.width, height |-> e.height]])

Select(e) == [e EXCEPT !.selected = TRUE]
Deselect(e) == [e EXCEPT !.selected = FALSE]
PointerEnter(e) == [e EXCEPT !.hovered = TRUE]
PointerLeaveDeselects(e) == [e EXCEPT !.hovered = FALSE, !.selected = FALSE]
PointerLeave(e) == [e EXCEPT !.hovered = FALSE]

\* One phase call on node n.
Phase(op, n, res) ==
    /\ elems' = [elems EXCEPT ![n] = res.elem]
    /\ last' = Call(op, <<n>>, res.outcome)
    /\ UNCHANGED <<options, defVars, renderVars, delivered, outVars>>

DoNodeMeasure == \E n \in NodeElements : Phase("measure", n, NodeMeasure(n, elems[n]))
DoNodeLayout == \E n \in NodeElements : Phase("layout", n, NodeLayout(n, elems[n]))
DoNodeUpdate == \E n \in NodeElements : Phase("update", n, NodeUpdate(n, elems[n]))

\* One select, deselect or pointer event on element id.
Interact(op, id, e) ==
    /\ elems' = [elems EXCEPT ![id] = e]
    /\ last' = Call(op, <<id>>, "ok")
    /\ UNCHANGED <<options, defVars, renderVars, delivered, outVars>>

DoSelect == \E id \in ElementIds : Interact("select", id, Select(elems[id]))
DoDeselect == \E id \in ElementIds : Interact("deselect", id, Deselect(elems[id]))
DoPointerEnter == \E id \in ElementIds : Interact("pointerenter", id, PointerEnter(elems[id]))
DoPointerLeave == \E id \in ElementIds : Interact("pointerleave", id, PointerLeave(elems[id]))

-----------------------------------------------------------------------------
(* The library right after construction, and its definition calls *)

\* An edge that was given no waypoints yet.
NoShape ==
    [points |-> <<>>,
     path |-> [d |-> <<>>, width |-> 0, visible |-> FALSE],
     hitTest |-> [d |-> <<>>, width |-> 0, visible |-> FALSE]]

Untouched ==
    /\ delivered = <<>>
    /\ elems = NewElements
    /\ body = <<>>
    /\ exported = <<>>
    /\ edgeShape = NoShape

Constructed ==
    /\ Untouched
    /\ nodes = <<>>
    /\ clusters = <<>>
    /\ edges = <<>>
    /\ listeners = <<>>
    /\ last = Call("new", <<>>, "ok")
    /\ grapherInstance = 0
    /\ container = <<>>
    /\ runs = <<>>

Init ==
    /\ options \in {DefaultOptions("TB", 50, 50, c) : c \in BOOLEAN}
    /\ Constructed
    /\ graphs = <<>>

DoAddNode == \E id \in ApiIds \cup {NoId}, p \in ApiIds \cup {NoParent} : AddNode(id, p)

DoAddCluster == \E id \in ApiIds \cup {NoId}, p \in ApiIds \cup {NoParent} : AddCluster(id, p)

DoAddEdge == \E f \in ApiIds \cup {NoId}, t \in ApiIds \cup {NoId} : AddEdge(f, t, 0)

DoOn == \E ty \in EventTypes, fn \in BOOLEAN : On(ty, fn)

Next == DoAddNode \/ DoAddCluster \/ DoAddEdge \/ DoOn

Spec == Init /\ [][Next]_vars

-----------------------------------------------------------------------------
(* A client driving one grapher.Graph directly *)

RECURSIVE SetNodes(_, _)
SetNodes(g, names) ==
    IF names = <<>> THEN g
    ELSE SetNodes(SetNode(g, Head(names), NewNode(Head(names), FALSE, FALSE)), Tail(names))

InitGraph ==
    /\ options \in {DefaultOptions("TB", 50, 50, c) : c \in BOOLEAN}
    /\ Constructed
    /\ graphs = <<SetNodes(NewGraph(options.compound), <<"K", "L", "A">>)>>

GraphSetNode(name) ==
    /\ graphs' = [graphs EXCEPT ![1] = SetNode(graphs[1], name, NewNode(name, FALSE, FALSE))]
    /\ last' = Call("setNode", <<name>>, "ok")
    /\ UNCHANGED <<options, defVars, uiVars, grapherInstance, container, runs>>

GraphSetParent(node, parent, lenient) ==
    LET r == SetParent(graphs[1], node, parent, lenient) IN
    /\ graphs' = [graphs EXCEPT ![1] = r.graph]
    /\ last' = Call("setParent", <<node, parent>>, IF r.threw THEN "threw" ELSE "ok")
    /\ UNCHANGED <<options, defVars, uiVars, grapherInstance, container, runs>>

NextGraph ==
    \/ \E n \in GraphIds : GraphSetNode(n)
    \/ \E n \in GraphIds, p \in GraphIds \cup {UnknownId}, l \in BOOLEAN : GraphSetParent(n, p, l)

SpecGraph == InitGraph /\ [][NextGraph]_vars

-----------------------------------------------------------------------------
(* One render() of a library holding definitions made by earlier calls *)

EdgeInputs ==
    {[from |-> "A", to |-> "B", minlen |-> 0],
     [from |-> "A", to |-> "C", minlen |-> 0],
     [from |-> "B", to |-> "A", minlen |-> 0],
     [from |-> "B", to |-> "C", minlen |-> 2],
     [from |-> "C", to |-> "C", minlen |-> 0]}

EdgeLists == UNION {[1..n -> EdgeInputs] : n \in 0..MaxEdges}

Def(id, parent) == [id |-> id, parent |-> parent]

NodeLists ==
    {<<Def("A", pa), Def("B", NoParent)>> \o c :
        pa \in {NoParent, "L", UnknownId},
        c \in {<<>>, <<Def("C", NoParent)>>}}

ClusterLists ==
    {k \o l : k \in {<<>>} \cup {<<Def("K", p)>> : p \in {NoParent, "L", "K"}},
              l \in {<<>>} \cup {<<Def("L", p)>> : p \in {NoParent, "K"}}}

OptionSets ==
    {DefaultOptions("TB", 50, 30, TRUE), DefaultOptions("LR", 50, 50, TRUE),
     DefaultOptions("BT", 50, 50, FALSE)}

Idle ==
    /\ Untouched
    /\ listeners = <<>>
    /\ last = Call("new", <<>>, "ok")
    /\ graphs = <<>>
    /\ grapherInstance = 0
    /\ container = <<>>
    /\ runs = <<>>

InitLayout ==
    /\ options \in OptionSets
    /\ nodes \in NodeLists
    /\ clusters \in IF options.compound THEN ClusterLists ELSE {<<>>}
    /\ edges \in EdgeLists
    /\ Idle

NextLayout ==
    \/ runs = <<>> /\ \E l \in BOOLEAN : RenderStart(l)
    \/ \E o \in LayoutOutcomes : LayoutResolve(1, o)

SpecLayout == InitLayout /\ [][NextLayout]_vars

-----------------------------------------------------------------------------
(* Several render() calls, overlapping or not, on a few fixed definitions *)

InitRender ==
    /\ options = DefaultOptions("TB", 50, 50, TRUE)
    /\ nodes \in {<<Def("A", NoParent), Def("B", NoParent)>>,
                  <<Def("A", "K"), Def("B", NoParent)>>}
    /\ clusters \in {<<>>, <<Def("K", NoParent)>>, <<Def("K", "K")>>}
    /\ edges \in {<<>>, <<[from |-> "A", to |-> "B", minlen |-> 0]>>}
    /\ Idle

NextRender ==
    \/ \E l \in BOOLEAN : RenderStart(l)
    \/ \E r \in 1..MaxRuns, o \in LayoutOutcomes : LayoutResolve(r, o)

SpecRender == InitRender /\ [][NextRender]_vars

-----------------------------------------------------------------------------
(* A user clicking on what render() put into the container, with listeners *)
(* registered before and after render()                                     *)

InitEvents ==
    /\ options = DefaultOptions("TB", 50, 50, TRUE)
    /\ nodes = <<[id |-> "A", parent |-> NoParent,
                  arguments |-> <<[name |-> "x", value |-> "1"]>>],
                 Def("B", NoParent)>>
    /\ clusters = <<>>
    /\ edges = <<[from |-> "A", to |-> "B", minlen |-> 0, id |-> "e1", label |-> "ab"],
                 [from |-> "B", to |-> "A", minlen |-> 0]>>
    /\ Idle

DoRegister ==
    /\ Len(listeners) < MaxHandlers
    /\ \E ty \in ClickEventTypes, fn \in BOOLEAN : Register(ty, fn)

NextEvents ==
    \/ DoRegister
    \/ runs = <<>> /\ RenderStart(FALSE)
    \/ \E o \in LayoutOutcomes : LayoutResolve(1, o)
    \/ \E n \in NodeIds : ClickHeader(1, n)
    \/ \E n \in NodeIds : ClickArgumentList(1, n)
    \/ \E n \in NodeIds : ClickArgument(1, n, 1)
    \/ \E i \in 1..MaxEdges : ClickEdge(1, i)

SpecEvents == InitEvents /\ [][NextEvents]_vars

-----------------------------------------------------------------------------
(* A client driving nodes, argument rows and edges directly *)

InitNode ==
    /\ options = DefaultOptions("TB", 50, 50, TRUE)
    /\ Constructed
    /\ graphs = <<>>

NextNode ==
    \/ DoNodeMeasure \/ DoNodeLayout \/ DoNodeUpdate
    \/ DoSelect \/ DoDeselect \/ DoPointerEnter \/ DoPointerLeave

SpecNode == InitNode /\ [][NextNode]_vars

-----------------------------------------------------------------------------
(* A client that defines nodes and clusters and renders once *)

NextUse ==
    \/ DoAddNode
    \/ DoAddCluster
    \/ runs = <<>> /\ \E l \in BOOLEAN : RenderStart(l)
    \/ \E o \in LayoutOutcomes : LayoutResolve(1, o)

SpecUse == Init /\ [][NextUse]_vars

-----------------------------------------------------------------------------
(* saveSvg: the export of the svg in the container *)

MaxSaves == 2

\* The <a download> element saveSvg creates.
DownloadLink(filename) == [tag |-> "a", download |-> filename]

AppendChild(children, child) == Append(children, child)
RemoveChild(children, child) == SelectSeq(children, LAMBDA c : c # child)

\* svgElement.cloneNode(true): a copy of what the svg of run `svg` shows, the
\* elements of the run's graph as update() left them.
CloneNode(svg) ==
    LET g == graphs[runs[svg].graph]
    IN [of |-> svg, updated |-> g.updatedBy # <<>>, shown |-> g.rendered]

SaveSvgLeavesLink(filename) ==
    /\ Len(exported) < MaxSaves
    /\ IF container = <<>>
       THEN /\ last' = Call("saveSvg", <<filename>>, "error")
            /\ UNCHANGED <<body, exported>>
       ELSE /\ exported' = Append(exported, [download |-> filename,
                                             svg |-> CloneNode(container[1])])
            /\ body' = AppendChild(body, DownloadLink(filename))
            /\ last' = Call("saveSvg", <<filename>>, "ok")
    /\ UNCHANGED <<options, defVars, renderVars, delivered, elems, edgeShape>>

\* saveSvg(filename): without an svg in the container it reports an error and
\* returns; otherwise it serializes a clone of the first svg, clicks a
\* temporary download link and removes the link again.
SaveSvg(filename) ==
    /\ Len(exported) < MaxSaves
    /\ IF container = <<>>
       THEN /\ last' = Call("saveSvg", <<filename>>, "error")
            /\ UNCHANGED <<body, exported>>
       ELSE LET a == DownloadLink(filename) IN
            /\ exported' = Append(exported, [download |-> filename,
                                             svg |-> CloneNode(container[1])])
            /\ body' = RemoveChild(AppendChild(body, a), a)
            /\ last' = Call("saveSvg", <<filename>>, "ok")
    /\ UNCHANGED <<options, defVars, renderVars, delivered, elems, edgeShape>>

InitSave ==
    /\ options = DefaultOptions("TB", 50, 50, TRUE)
    /\ nodes = <<[id |-> "A", parent |-> "K"], [id |-> "B", parent |-> NoParent]>>
    /\ clusters \in {<<[id |-> "K", parent |-> NoParent]>>, <<[id |-> "K", parent |-> "K"]>>}
    /\ edges = <<[from |-> "A", to |-> "B", minlen |-> 0]>>
    /\ Idle

NextSave ==
    \/ \E l \in BOOLEAN : RenderStart(l)
    \/ \E r \in 1..MaxRuns, o \in LayoutOutcomes : LayoutResolve(r, o)
    \/ \E f \in {"graph.svg"} : SaveSvg(f)      \* the default file name

SpecSave == InitSave /\ [][NextSave]_vars

-----------------------------------------------------------------------------
(* Clients that share one container between render() calls: they empty it *)
(* before they construct the next GraphLibrary on it                       *)

\* container.innerHTML = '' by the owner of the container.
ClearContainer ==
    /\ container' = <<>>
    /\ last' = Call("clear", <<>>, "ok")
    /\ UNCHANGED <<options, defVars, uiVars, graphs, grapherInstance, runs>>

NextShared ==
    \/ \E l \in BOOLEAN : RenderStart(l)
    \/ \E r \in 1..MaxRuns, o \in LayoutOutcomes : LayoutResolve(r, o)
    \/ ClearContainer

SpecShared == InitRender /\ [][NextShared]_vars

-----------------------------------------------------------------------------
(* A client that makes a fixed set of definitions, with pairwise distinct  *)
(* ids, in any order and then renders once                                 *)

OrderNodes == {[id |-> "A", parent |-> "K"], [id |-> "B", parent |-> NoParent]}
OrderClusters == {[id |-> "K", parent |-> "L"], [id |-> "L", parent |-> NoParent]}
OrderEdges == {[from |-> "A", to |-> "B", minlen |-> 0], [from |-> "B", to |-> "A", minlen |-> 0]}

InitOrder ==
    /\ options = DefaultOptions("TB", 50, 50, TRUE)
    /\ Constructed
    /\ graphs = <<>>

NextOrder ==
    \/ runs = <<>> /\ \E d \in OrderNodes : d.id \notin Keys(nodes) /\ AddNode(d.id, d.parent)
    \/ runs = <<>> /\ \E d \in OrderClusters :
                         d.id \notin Keys(clusters) /\ AddCluster(d.id, d.parent)
    \/ runs = <<>> /\ \E d \in OrderEdges :
                         d \notin SeqToSet(edges) /\ AddEdge(d.from, d.to, d.minlen)
    \/ runs = <<>> /\ \E l \in BOOLEAN : RenderStart(l)
    \/ \E o \in LayoutOutcomes : LayoutResolve(1, o)

SpecOrder == InitOrder /\ [][NextOrder]_vars

-----------------------------------------------------------------------------
(* grapher.Edge driven directly: the layout gives it waypoints, update()   *)
(* turns them into the stroke path and the hit-test path                    *)

MaxWaypoints == 4

Waypoints == {[x |-> x, y |-> y] : x \in {0, 30}, y \in {0, 30}}
WaypointLists == UNION {[1..n -> Waypoints] : n \in 1..MaxWaypoints}

\* The share of the distance between its neighbours by which a control
\* point is moved off its waypoint.
Smoothing == 6

\* Waypoint i, the end waypoints standing in for the neighbours they lack.
Neighbour(points, i) ==
    points[IF i < 1 THEN 1 ELSE IF i > Len(points) THEN Len(points) ELSE i]

MoveTo(p) == [op |-> "moveTo", x |-> p.x, y |-> p.y]

BezierCurveTo(c1, c2, p) ==
    [op |-> "bezierCurveTo", x1 |-> c1.x, y1 |-> c1.y, x2 |-> c2.x, y2 |-> c2.y,
     x |-> p.x, y |-> p.y]

\* The cubic segment from waypoint i to waypoint i + 1.
Segment(points, i) ==
    LET before == Neighbour(points, i - 1)
        from   == points[i]
        to     == points[i + 1]
        after  == Neighbour(points, i + 2)
    IN BezierCurveTo([x |-> from.x + (to.x - before.x) \div Smoothing,
                      y |-> from.y + (to.y - before.y) \div Smoothing],
                     [x |-> to.x - (after.x - from.x) \div Smoothing,
                      y |-> to.y - (after.y - from.y) \div Smoothing],
                     to)

CurvePathThroughMidpoints(points) ==
    IF points = <<>> THEN <<>>
    ELSE <<MoveTo(points[1])>> \o
         [i \in 1..(Len(points) - 1) |->
             BezierCurveTo(points[i], points[i],
                           [x |-> (points[i].x + points[i + 1].x) \div 2,
                            y |-> (points[i].y + points[i + 1].y) \div 2])]

\* new grapher.Edge.Curve(points).path.data, as a list of path commands.
CurvePath(points) ==
    IF points = <<>> THEN <<>>
    ELSE <<MoveTo(points[1])>> \o [i \in 1..(Len(points) - 1) |-> Segment(points, i)]

StrokeWidth == 1
HitTestWidth == 5

\* The layout sets edge.points.
EdgeLayout(points) ==
    /\ edgeShape.points = <<>>
    /\ edgeShape' = [edgeShape EXCEPT !.points = points]
    /\ last' = Call("layout", <<EdgeElement>>, "ok")
    /\ UNCHANGED <<options, defVars, renderVars, delivered, elems, body, exported>>

\* edge.update(): both paths are drawn from edge.points.
EdgeUpdate ==
    /\ edgeShape' = [edgeShape EXCEPT
                        !.path = [d |-> CurvePath(edgeShape.points),
                                  width |-> StrokeWidth, visible |-> TRUE],
                        !.hitTest = [d |-> CurvePath(edgeShape.points),
                                     width |-> HitTestWidth, visible |-> FALSE]]
    /\ last' = Call("update", <<EdgeElement>>, "ok")
    /\ UNCHANGED <<options, defVars, renderVars, delivered, elems, body, exported>>

NextEdge ==
    \/ \E w \in WaypointLists : EdgeLayout(w)
    \/ EdgeUpdate

SpecEdge == InitNode /\ [][NextEdge]_vars

-----------------------------------------------------------------------------
(* Claims about the definition store *)

UniqueIds(defs) == \A i, j \in DOMAIN defs : defs[i].id = defs[j].id => i = j

KeepsFirst(old, new) ==
    \A id \in Keys(old) : id \in Keys(new) /\ Get(new, id) = Get(old, id)

\* C2: node and cluster ids share one namespace: after every addNode or
\* addCluster no id is a key of both the node and the cluster definitions
\* (and of no two entries of one map), and the definition stored for an id
\* stays the one inserted first.
C2_SharedNamespace ==
    [][/\ Keys(nodes') \cap Keys(clusters') = {}
       /\ UniqueIds(nodes') /\ UniqueIds(clusters')
       /\ KeepsFirst(nodes, nodes') /\ KeepsFirst(clusters, clusters')]_vars

\* Reached: addCluster was called with the id of an existing node and refused.
C2_Witness ==
    /\ options.compound
    /\ last.op = "addCluster" /\ last.outcome = "warned"
    /\ last.id[1] \in Keys(nodes)

\* A step that is an addNode or addCluster call whose id is already in use
\* (on a compound graph for addCluster, which otherwise stops earlier).
DuplicateAdd ==
    /\ last'.op \in {"addNode", "addCluster"}
    /\ last'.id[1] # NoId
    /\ IdUsed(last'.id[1])
    /\ last'.op = "addCluster" => options.compound

\* C3 as stated: a duplicate identifier makes the call fail (it does not
\* return normally) and the rejected call changes no definitions or listeners.
C3_DuplicateFails ==
    [][DuplicateAdd => last'.outcome = "threw" /\ UNCHANGED defVars]_vars

\* C3 as amended: a duplicate identifier is reported with a console warning,
\* the call returns normally, and it changes none of the node definitions,
\* cluster definitions, edge list or listeners.
C3_DuplicateWarnsAndReturns ==
    [][DuplicateAdd => last'.outcome = "warned" /\ UNCHANGED defVars]_vars

\* Reached: a duplicate addNode has been made on a store that holds
\* clusters, edges and listeners.
C3_Witness ==
    /\ last.op = "addNode" /\ last.outcome = "warned" /\ last.id[1] # NoId
    /\ clusters # <<>> /\ edges # <<>> /\ listeners # <<>>

\* A step that is an addEdge call with non-empty from and to of which at
\* least one names no defined node or cluster.
DanglingAddEdge ==
    /\ last'.op = "addEdge"
    /\ last'.id[1] # NoId /\ last'.id[2] # NoId
    /\ ~IdUsed(last'.id[1]) \/ ~IdUsed(last'.id[2])

\* C4 as stated: addEdge with an undefined endpoint fails at the call and
\* leaves the edge list unchanged (no opt-in exists in the library).
C4_DanglingEdgeFails ==
    [][DanglingAddEdge => last'.outcome = "threw" /\ edges' = edges]_vars

\* C4 as amended: addEdge with an undefined endpoint returns normally and
\* appends the edge definition, with its from and to, to the edge list.
C4_DanglingEdgeAccepted ==
    [][DanglingAddEdge =>
        /\ last'.outcome = "ok"
        /\ Len(edges') = Len(edges) + 1
        /\ SubSeq(edges', 1, Len(edges)) = edges
        /\ edges'[Len(edges')].from = last'.id[1]
        /\ edges'[Len(edges')].to = last'.id[2]]_vars

\* Reached: the edge list holds an edge whose target is defined nowhere,
\* appended by the last call.
C4_Witness ==
    /\ last.op = "addEdge" /\ last.outcome = "ok"
    /\ edges # <<>>
    /\ edges[Len(edges)].from \in Keys(nodes)
    /\ ~IdUsed(edges[Len(edges)].to)

\* C6: the stored parent declarations always form a forest, a declaration
\* that closes a containment cycle being rejected by addNode/addCluster.
C6_DeclarationsFormForest == IsForest(DeclaredParents)

-----------------------------------------------------------------------------
(* Claims about the graph model *)

\* node equals parent, or node is an ancestor of parent, in parent map pm.
AncestorOrSelf(pm, node, parent) ==
    node = parent \/ node \in AncestorsIn(pm, parent, Cardinality(DOMAIN pm) + 1)

\* A step that is a setParent(node, parent) call on the compound graph.
SetParentCall == last'.op = "setParent" /\ graphs[1].compound

\* C1: on a compound graph whose parent mapping is a forest, a setParent call
\* in which node equals parent or node is an ancestor of parent throws and
\* leaves the parent mapping unchanged, and after every call, successful or
\* not, the mapping is a forest: no node is its own ancestor.
C1_SetParentKeepsForest ==
    [][SetParentCall =>
        /\ AncestorOrSelf(graphs[1].parent, last'.id[1], last'.id[2]) =>
              last'.outcome = "threw" /\ graphs'[1].parent = graphs[1].parent
        /\ last'.outcome = "threw" => graphs'[1].parent = graphs[1].parent
        /\ IsForest(graphs'[1].parent)]_vars

\* Reached: with A inside L inside K, setParent(K, A) was refused.
C1_Witness ==
    /\ Len(graphs) = 1 /\ graphs[1].compound
    /\ "A" \in DOMAIN graphs[1].parent /\ graphs[1].parent["A"] = "L"
    /\ "L" \in DOMAIN graphs[1].parent /\ graphs[1].parent["L"] = "K"
    /\ last.op = "setParent" /\ last.id = <<"K", "A">> /\ last.outcome = "threw"

-----------------------------------------------------------------------------
(* Claims about one render() and its layout *)

Defined == Keys(nodes) \cup Keys(clusters)

\* The (from, to) pairs of the edge definitions whose endpoints are both
\* defined, each pair once, in the order of first insertion.
ResolvedPairs ==
    LET R == SelectSeq(edges, LAMBDA d : d.from \in Defined /\ d.to \in Defined)
        first == SelectSeq(IdxSeq(Len(R)),
                           LAMBDA i : \A j \in 1..(i - 1) :
                               <<R[j].from, R[j].to>> # <<R[i].from, R[i].to>>)
    IN [k \in DOMAIN first |-> <<R[first[k]].from, R[first[k]].to>>]

\* C5: every edge render() puts into the graph model has its source and its
\* target among the model's nodes; an edge definition with an unresolved
\* endpoint is skipped without ending the run (only a refused parent ends
\* it), and the edges with resolved endpoints are all in the model, in
\* insertion order.
C5_EdgesResolved ==
    \A r \in DOMAIN runs :
        LET g == graphs[runs[r].graph] IN
        /\ \A i \in DOMAIN g.edges : HasNode(g, g.edges[i].v) /\ HasNode(g, g.edges[i].w)
        /\ runs[r].state = "threw" =>
              \/ ~IsForest(DeclaredParents)
              \/ \E id \in Defined : DeclaredParents[id] \notin Defined \cup {NoParent}
        /\ runs[r].state # "threw" =>
              [i \in DOMAIN g.edges |-> <<g.edges[i].v, g.edges[i].w>>] = ResolvedPairs

\* Reached: an edge to an undefined node was skipped and a later edge added.
C5_Witness ==
    /\ Len(runs) = 1 /\ runs[1].state = "awaiting"
    /\ Len(edges) = 2
    /\ edges[1].to \notin Defined
    /\ Len(graphs[runs[1].graph].edges) = 1
    /\ graphs[runs[1].graph].edges[1].v = edges[2].from
    /\ graphs[runs[1].graph].edges[1].w = edges[2].to

LaidOut(r) == r \in DOMAIN runs /\ graphs[runs[r].graph].laidOut

RankSpan(g, e) == g.layout.rank[e.w] - g.layout.rank[e.v]

\* The minlen render() hands to the layout for the pair (v, w): that of the
\* first definition of the pair, 1 when it gives none.
HandedMinlen(v, w) ==
    LET d == edges[Min({i \in DOMAIN edges : edges[i].from = v /\ edges[i].to = w})]
    IN IF d.minlen = 0 THEN 1 ELSE d.minlen

\* C7 as stated: in every successful layout every edge spans at least its
\* minlen: rank(target) - rank(source) >= minlen.
C7_EveryEdgeSpansMinlen ==
    \A r \in DOMAIN runs : LaidOut(r) =>
        LET g == graphs[runs[r].graph] IN
        \A i \in DOMAIN g.edges : RankSpan(g, g.edges[i]) >= HandedMinlen(g.edges[i].v, g.edges[i].w)

RECURSIVE ReachFrom(_, _, _)
ReachFrom(E, S, fuel) ==
    LET T == S \cup {E[i].w : i \in {j \in DOMAIN E : E[j].v \in S}} IN
    IF fuel = 0 \/ T = S THEN S ELSE ReachFrom(E, T, fuel - 1)

HasNoCycle(E) ==
    \A i \in DOMAIN E : E[i].v \notin ReachFrom(E, {E[i].w}, Len(E) + 1)

\* C7 as amended: in every successful layout of a graph whose edges close no
\* directed cycle (self-loops included), every edge spans at least the
\* minlen handed to the layout, 1 when the edge definition gives none.
C7_AcyclicEdgesSpanMinlen ==
    \A r \in DOMAIN runs : LaidOut(r) /\ HasNoCycle(graphs[runs[r].graph].edges) =>
        LET g == graphs[runs[r].graph] IN
        \A i \in DOMAIN g.edges : RankSpan(g, g.edges[i]) >= HandedMinlen(g.edges[i].v, g.edges[i].w)

\* Reached: a laid out chain A -> B -> C whose second edge has minlen 2.
C7_Witness ==
    /\ LaidOut(1)
    /\ Len(graphs[runs[1].graph].edges) = 2
    /\ HasNoCycle(graphs[runs[1].graph].edges)
    /\ graphs[runs[1].graph].layout.rank["B"] = 1
    /\ graphs[runs[1].graph].layout.rank["C"] = 3

\* The scenario of C8: nodes A, B, C without parents, no clusters, the edges
\* A -> B and A -> C with no minlen given, direction top-to-bottom.
ForkScenario ==
    /\ options.direction = "TB"
    /\ Keys(nodes) = {"A", "B", "C"} /\ clusters = <<>>
    /\ \A i \in DOMAIN nodes : nodes[i].parent = NoParent
    /\ Len(edges) = 2
    /\ {<<edges[i].from, edges[i].to, edges[i].minlen>> : i \in DOMAIN edges}
          = {<<"A", "B", 0>>, <<"A", "C", 0>>}

\* C8: in that scenario B and C share one rank, A's rank is strictly smaller
\* and A lies above them, and the boxes of B and C are at least the
\* configured node separation apart horizontally.
C8_ForkLayout ==
    ForkScenario /\ LaidOut(1) =>
        LET l == graphs[runs[1].graph].layout IN
        /\ l.rank["B"] = l.rank["C"]
        /\ l.rank["A"] < l.rank["B"]
        /\ l.box["A"].bottom <= l.box["B"].top /\ l.box["A"].bottom <= l.box["C"].top
        /\ \/ l.box["C"].left - l.box["B"].right >= options.nodeSep
           \/ l.box["B"].left - l.box["C"].right >= options.nodeSep

\* Reached: the scenario, laid out.
C8_Witness == ForkScenario /\ LaidOut(1) /\ runs[1].state = "done"

Contains(outer, inner) ==
    /\ outer.left <= inner.left /\ inner.right <= outer.right
    /\ outer.top <= inner.top /\ inner.bottom <= outer.bottom

\* C9: after a successful layout every cluster's box contains the box of
\* each node or cluster declared below it, at any depth, enlarged by the
\* margin on each side, so it is at least two margins wider.
C9_ClusterContainsDescendants ==
    \A r \in DOMAIN runs : LaidOut(r) =>
        LET g == graphs[runs[r].graph]
            n == Cardinality(Defined) + 1
        IN \A d \in SeqToSet(g.nodes) :
             \A a \in AncestorsIn(DeclaredParents, d, n) \cap SeqToSet(g.nodes) :
                /\ Contains(g.layout.box[a], Inflate(g.layout.box[d], ClusterMargin))
                /\ g.layout.box[a].right - g.layout.box[a].left
                     >= g.layout.box[d].right - g.layout.box[d].left + 2 * ClusterMargin

\* Reached: A inside L inside K, laid out.
C9_Witness ==
    /\ LaidOut(1)
    /\ HasNode(graphs[runs[1].graph], "L") /\ HasNode(graphs[runs[1].graph], "K")
    /\ graphs[runs[1].graph].parent["A"] = "L"
    /\ graphs[runs[1].graph].parent["L"] = "K"

-----------------------------------------------------------------------------
(* Claims about cancelled runs *)

Cancelled(r) == r \in DOMAIN runs /\ runs[r].state = "cancelled"

ActedOn(g, r) == r \in SeqToSet(g.styledBy \o g.updatedBy \o g.edgeClickBy)

\* What holds of a cancelled run r: it styled and updated no graph and
\* attached no edge click listener, and layout gave its graph no coordinates.
CancelledRunLeftNothing(r) ==
    /\ \A gi \in DOMAIN graphs : ~ActedOn(graphs[gi], r)
    /\ ~graphs[runs[r].graph].laidOut
    /\ graphs[runs[r].graph].rendered # <<>> =>
          \A n \in DOMAIN graphs[runs[r].graph].rendered :
              graphs[runs[r].graph].rendered[n] = Unplaced

\* A step that starts a render() after some run was cancelled: the container
\* then holds at most the new svg and the graph model is a new one, neither
\* laid out nor updated.
RenderAfterCancelStartsFresh ==
    (Len(runs') = Len(runs) + 1 /\ \E r \in DOMAIN runs : Cancelled(r)) =>
        /\ SeqToSet(container') \subseteq {Len(runs')}
        /\ grapherInstance' \notin {runs[r].graph : r \in DOMAIN runs}
        /\ LET g == graphs'[grapherInstance'] IN
              ~g.laidOut /\ g.updatedBy = <<>> /\ g.rendered = <<>> /\ g.edgeClickBy = <<>>

\* C10 as stated: a run whose layout is cancelled calls update() on nothing
\* and attaches no listeners at all, and a later render() starts from a
\* cleared container and a fresh graph model.
C10_CancelledRunAttachesNoListener ==
    [][/\ \A r \in DOMAIN runs' : Cancelled(r)' =>
            /\ CancelledRunLeftNothing(r)'
            /\ \A n \in DOMAIN graphs'[runs'[r].graph].label :
                   ~graphs'[runs'[r].graph].label[n].headerClick
       /\ RenderAfterCancelStartsFresh]_vars

\* C10 as amended: a run whose layout is cancelled calls update() on nothing
\* and attaches no edge click listener (the click handlers of the node
\* headers, registered before the layout, are the only ones it leaves), none
\* of its coordinates reach an element, and a later render() starts from a
\* cleared container and a fresh graph model.
C10_CancelledRunAppliesNothing ==
    [][/\ \A r \in DOMAIN runs' : Cancelled(r)' => CancelledRunLeftNothing(r)'
       /\ RenderAfterCancelStartsFresh]_vars

\* Reached: the first run was cancelled and a second one, started after
\* that, has completed.
C10_Witness ==
    /\ Len(runs) = 2 /\ Cancelled(1) /\ runs[2].state = "done"
    /\ container = <<2>>
    /\ graphs[runs[2].graph].updatedBy = <<2>>

-----------------------------------------------------------------------------
(* Claims about overlapping render() runs and the promise of render() *)

\* C11: once a newer run has started, an older run applies nothing to the
\* newer run's graph model: every graph model is styled, updated and given
\* edge listeners only by the run that built it, and only after its own
\* layout has resolved successfully.
C11_OlderRunAppliesNothing ==
    \A r \in DOMAIN runs : \A gi \in DOMAIN graphs :
        ActedOn(graphs[gi], r) => runs[r].graph = gi /\ graphs[gi].laidOut

Settled(r) == runs[r].state \in {"done", "cancelled", "failed"}

\* C12: success, cancellation and layout failure give the caller of render()
\* three distinguishable results: two runs that ended differently did not
\* settle their promises alike.
C12_OutcomesDistinguishable ==
    \A r1, r2 \in DOMAIN runs :
        (Settled(r1) /\ Settled(r2) /\ runs[r1].state # runs[r2].state) =>
            PromiseOf(runs[r1].state) # PromiseOf(runs[r2].state)

\* C13: the promise of render() rejects whenever a step of the run failed,
\* and is fulfilled only after the run has performed update().
C13_RejectsOnFailure ==
    \A r \in DOMAIN runs :
        /\ runs[r].state \in {"threw", "failed"} =>
               PromiseOf(runs[r].state).status = "rejected"
        /\ PromiseOf(runs[r].state).status = "fulfilled" =>
               "update" \in SeqToSet(runs[r].phases)

IsPrefix(s, t) == Len(s) <= Len(t) /\ SubSeq(t, 1, Len(s)) = s

\* How often run r called update(), over all graph models.
RECURSIVE UpdatesBy(_, _)
UpdatesBy(r, gi) ==
    IF gi = 0 THEN 0
    ELSE Len(SelectSeq(graphs[gi].updatedBy, LAMBDA x : x = r)) + UpdatesBy(r, gi - 1)

\* C14: within every render() run the phases happen in the order build,
\* measure, layout, update, each at most once, and the run calls update()
\* only after its own layout has resolved successfully.
C14_PhasesInOrder ==
    \A r \in DOMAIN runs :
        /\ IsPrefix(runs[r].phases, <<"build", "measure", "layout", "update">>)
        /\ UpdatesBy(r, Len(graphs)) = (IF "update" \in SeqToSet(runs[r].phases) THEN 1 ELSE 0)
        /\ "update" \in SeqToSet(runs[r].phases) =>
              /\ runs[r].state = "done"
              /\ graphs[runs[r].graph].laidOut
        /\ "layout" \in SeqToSet(runs[r].phases) =>
              graphs[runs[r].graph].built /\ graphs[runs[r].graph].measured

\* Reached: two overlapping runs have both gone through all four phases,
\* the older one resuming after the newer one had started.
C14_Witness ==
    /\ Len(runs) = 2
    /\ 1 \in SeqToSet(graphs[runs[2].graph].updatedBy)
    /\ runs[1].phases = <<"build", "measure", "layout", "update">>
    /\ runs[2].phases = <<"build", "measure", "layout", "update">>

-----------------------------------------------------------------------------
(* Claims about the options *)

\* C19: the four directions are fully distinct: the layout options render()
\* hands to the graph model for options.direction differ from those it
\* would hand over for each of the three other directions.
C19_DirectionsDistinct ==
    \A gi \in DOMAIN graphs :
        graphs[gi].built =>
            \A d \in Directions \ {options.direction} :
                graphs[gi].options # LayoutOptions([options EXCEPT !.direction = d])

NoSetParent(g) == \A n \in DOMAIN g.parent : g.parent[n] = Root

\* C20: on a library that is not compound the cluster definitions stay
\* empty, and render() calls setParent for no definition: its graph model
\* has every node at the top level and the run does not throw.
C20_ClustersNeedCompound ==
    ~options.compound =>
        /\ clusters = <<>>
        /\ \A r \in DOMAIN runs :
               runs[r].state # "threw" /\ NoSetParent(graphs[runs[r].graph])

\* Reached: a library that is not compound holds a node that declares the
\* parent K, and has rendered it.
C20_Witness ==
    /\ ~options.compound
    /\ \E i \in DOMAIN nodes : nodes[i].parent = "K"
    /\ Len(runs) = 1 /\ runs[1].state = "done"
    /\ Len(graphs[1].nodes) = Len(nodes) /\ nodes # <<>>

-----------------------------------------------------------------------------
(* Claims about the phases and the interaction state of an element *)

PhaseCall == last'.op \in {"measure", "layout", "update"}

\* The phase called by this step comes too early for its node: layout or
\* update before measure, or update before layout.
TooEarly ==
    LET e == elems[last'.id[1]] IN
    \/ last'.op = "layout" /\ ~e.measured
    \/ last'.op = "update" /\ (~e.measured \/ ~e.laidOut)

\* C15: a layout or update phase invoked on a node before its measure
\* phase, or an update phase before its layout phase, raises
\* RenderPrecondition and changes neither the node's size, its position nor
\* what the surface shows; a phase that comes in order does not raise.
C15_RenderPrecondition ==
    [][PhaseCall =>
        IF TooEarly
        THEN last'.outcome = "RenderPrecondition" /\ elems' = elems
        ELSE last'.outcome = "ok"]_vars

\* Reached: update was refused on a node that was measured but not yet laid
\* out, while the other node had been through all three phases.
C15_Witness ==
    /\ last.op = "update" /\ last.id = <<"A">> /\ last.outcome = "RenderPrecondition"
    /\ elems["A"].measured /\ ~elems["A"].laidOut
    /\ elems["B"].drawn # NothingDrawn

\* C16: the selected flag of an element changes only by a select or
\* deselect call on that element and its hovered flag only by a
\* pointer-enter or pointer-leave on it; select sets and deselect clears
\* selected, pointer-enter sets and pointer-leave clears hovered.
C16_SelectIndependentOfHover ==
    [][\A id \in ElementIds :
        /\ elems'[id].selected # elems[id].selected =>
               last'.op \in {"select", "deselect"} /\ last'.id = <<id>>
        /\ elems'[id].hovered # elems[id].hovered =>
               last'.op \in {"pointerenter", "pointerleave"} /\ last'.id = <<id>>
        /\ last'.id = <<id>> =>
               /\ last'.op = "select" => elems'[id].selected
               /\ last'.op = "deselect" => ~elems'[id].selected
               /\ last'.op = "pointerenter" => elems'[id].hovered
               /\ last'.op = "pointerleave" => ~elems'[id].hovered]_vars

\* Reached: a selected edge was hovered and un-hovered and is still selected.
C16_Witness ==
    /\ last.op = "pointerleave" /\ last.id = <<EdgeElement>>
    /\ elems[EdgeElement].selected /\ ~elems[EdgeElement].hovered
    /\ elems[RowElement].selected /\ elems[RowElement].hovered

-----------------------------------------------------------------------------
(* Claims about events *)

\* C17: an emission calls every listener registered for its event type,
\* exactly once each and in registration order, within the click that
\* caused it; for every listener that throws an error is logged, the
\* listeners after it are still called, and _emit does not throw.
C17_EveryListenerCalledInOrder ==
    [][last'.op = "click" =>
        /\ last'.outcome = "ok"
        /\ \A k \in DOMAIN delivered' :
              LET m == delivered'[k] IN
              /\ m.calls = CallbacksOf(ListenersFor(m.type))
              /\ \A i, j \in DOMAIN m.calls : m.calls[i] = m.calls[j] => i = j
              /\ m.errors = SelectSeq(m.calls, LAMBDA cb : cb \in m.throwers)
              /\ ~m.threw]_vars

\* Reached: the first of two listeners of a click threw, its error was
\* logged and the second was called all the same.
C17_Witness ==
    /\ last.op = "click" /\ Len(delivered) = 1
    /\ delivered[1].calls = <<1, 2>>
    /\ delivered[1].throwers = {1}
    /\ delivered[1].errors = <<1>>

\* The event type and the identifying data a click on `target` is to be
\* delivered with, from the definitions given to the library.
ExpectedType(target) ==
    CASE target[1] = "edge" -> "edge:click"
      [] target[1] = "argument" -> "node:argument:click"
      [] OTHER -> "node:click"

ExpectedData(target) ==
    CASE target[1] = "edge" ->
            LET d == edges[CHOOSE i \in DOMAIN edges :
                              edges[i].from = target[3] /\ edges[i].to = target[4]]
            IN <<d.from, d.to, IF "id" \in DOMAIN d THEN d.id ELSE "undefined",
                 IF "label" \in DOMAIN d THEN d.label ELSE "">>
      [] target[1] = "argument" ->
            LET as == Get(nodes, target[3]).arguments
                a  == as[CHOOSE i \in DOMAIN as : as[i].name = target[4]]
            IN <<target[3], a.name, a.value>>
      [] OTHER -> <<target[3]>>

\* C18: a click on a node header, an argument list, an argument or an edge
\* of a graph whose render() has completed is delivered to every listener
\* registered for its event type when the click happens, whether it was
\* registered before or after render(), with the identifying data of the
\* clicked element.
C18_ClicksDelivered ==
    [][(last'.op = "click" /\ Rendered > 0) =>
        /\ delivered' # <<>>
        /\ \A k \in DOMAIN delivered' :
              /\ delivered'[k].type = ExpectedType(last'.id)
              /\ delivered'[k].data = ExpectedData(last'.id)
              /\ delivered'[k].calls = CallbacksOf(ListenersFor(ExpectedType(last'.id)))]_vars

\* Reached: a click on the edge with id e1 reached two listeners, one
\* registered before render() and one after it had completed.
C18_Witness ==
    /\ last.op = "click" /\ last.id[1] = "edge"
    /\ Len(delivered) = 1
    /\ delivered[1].data = <<"A", "B", "e1", "ab">>
    /\ delivered[1].calls = <<1, 2>>
    /\ listeners[1].since = 0 /\ listeners[2].since = 1

-----------------------------------------------------------------------------
(* Claims about the size of a node and the paths of an edge *)

\* C21: measure gives a node the height of its blocks plus one separator
\* between every two of them and the width of its widest block, and a
\* measure of a node that was measured before leaves both as they were.
C21_MeasureStacksBlocks ==
    [][last'.op = "measure" =>
          LET n  == last'.id[1]
              bs == Blocks[n]
              hs == [i \in DOMAIN bs |-> bs[i].height]
          IN /\ elems'[n].height = SumSeq(hs) + BlockSeparator * (Len(bs) - 1)
             /\ elems'[n].width = Max({bs[i].width : i \in DOMAIN bs})
             /\ elems[n].measured =>
                   /\ elems'[n].width = elems[n].width
                   /\ elems'[n].height = elems[n].height]_vars

\* Node A, of two blocks, was measured, laid out and measured again.
C21_Witness ==
    /\ last = Call("measure", <<"A">>, "ok")
    /\ elems["A"].laidOut
    /\ Len(Blocks["A"]) = 2
    /\ elems["A"].height = 20 /\ elems["A"].width = 40

\* The point a path starts at and the point its last command ends at.
PathStart(d) == [x |-> d[1].x, y |-> d[1].y]
PathEnd(d) == [x |-> d[Len(d)].x, y |-> d[Len(d)].y]

\* C22: after update() the stroke path of an edge starts at its first
\* waypoint and ends at its last one, with one curve segment per waypoint
\* after the first, and the hit-test path, invisible and wider, runs between
\* the same two points through the same waypoints.
C22_PathsJoinEndWaypoints ==
    [][last'.op = "update" /\ edgeShape.points # <<>> =>
          LET ps == edgeShape'.points
              s  == edgeShape'.path
              h  == edgeShape'.hitTest
          IN /\ ps = edgeShape.points
             /\ Len(s.d) = Len(ps)
             /\ PathStart(s.d) = ps[1] /\ PathEnd(s.d) = ps[Len(ps)]
             /\ \A i \in DOMAIN ps : [x |-> h.d[i].x, y |-> h.d[i].y] = ps[i]
             /\ PathStart(h.d) = PathStart(s.d) /\ PathEnd(h.d) = PathEnd(s.d)
             /\ s.visible /\ ~h.visible /\ h.width > s.width]_vars

\* An edge of four waypoints, not all on one line, was updated.
C22_Witness ==
    /\ last = Call("update", <<EdgeElement>>, "ok")
    /\ Len(edgeShape.points) = 4
    /\ edgeShape.points[1] # edgeShape.points[4]
    /\ edgeShape.points[2].x # edgeShape.points[1].x
    /\ Len(edgeShape.path.d) = 4
    /\ edgeShape.path.d[2].x1 # edgeShape.points[1].x

-----------------------------------------------------------------------------
(* Claims about saveSvg and about the container *)

\* C23: saveSvg changes neither the container, the graph models and runs,
\* the options, the definitions nor the listeners, and leaves no download link
\* in the document; without an svg in the container it reports an error and
\* starts no download, with one it starts exactly one download, of a clone of
\* that svg.
C23_SaveSvgLeavesSurface ==
    [][last'.op = "saveSvg" =>
          /\ UNCHANGED <<container, graphs, grapherInstance, runs>>
          /\ UNCHANGED <<options, nodes, clusters, edges, listeners>>
          /\ \A i \in DOMAIN body' : body'[i].tag # "a"
          /\ IF container = <<>>
             THEN last'.outcome = "error" /\ exported' = exported
             ELSE /\ last'.outcome = "ok"
                  /\ Len(exported') = Len(exported) + 1
                  /\ SubSeq(exported', 1, Len(exported)) = exported
                  /\ exported'[Len(exported')].svg = CloneNode(container[1])]_vars

\* A second export of an updated svg that is still in the container.
C23_Witness ==
    /\ last = Call("saveSvg", <<"graph.svg">>, "ok")
    /\ Len(exported) = 2
    /\ exported[2].svg.updated
    /\ container = <<exported[2].svg.of>>
    /\ body = <<>>

\* Every run has returned.
AllReturned == runs # <<>> /\ \A r \in DOMAIN runs : runs[r].state # "awaiting"

\* C24: whatever the interleaving of render() calls, of their continuations
\* and of the owner emptying the container, the container never holds more
\* than one svg, and once every run has returned an svg it holds is the one
\* the most recently started run created.
C24_OneSvgOfLatestRun ==
    /\ Len(container) <= 1
    /\ AllReturned => \A i \in DOMAIN container : container[i] = runs[Len(runs)].svg

\* Two overlapping runs have returned, the older one after the newer one
\* started, and the container shows the svg of the newer one.
C24_Witness ==
    /\ AllReturned
    /\ Len(runs) = 2
    /\ container = <<runs[2].svg>>
    /\ graphs[runs[2].graph].updatedBy = <<1, 2>>

\* The click handlers _attachEventListeners put on each edge of g, and the
\* label elements _applyCustomStyles appended to each cluster of g.
EdgeClickHandlers(g) == Len(g.edgeClickBy)
ClusterLabels(g) == Len(g.styledBy)

HasCluster(g) == \E n \in DOMAIN g.label : g.label[n].isCluster

\* C25: in every graph model the library rendered, each edge carries at most
\* one click handler of the library, exactly one once the runs have returned
\* and the model was updated, and each cluster at most one label element.
C25_OneHandlerOneLabel ==
    \A gi \in DOMAIN graphs :
        LET g == graphs[gi] IN
        /\ g.edges # <<>> => EdgeClickHandlers(g) <= 1
        /\ g.edges # <<>> /\ AllReturned /\ g.updatedBy # <<>> => EdgeClickHandlers(g) = 1
        /\ HasCluster(g) => ClusterLabels(g) <= 1

-----------------------------------------------------------------------------
(* Claims about what render() reads and what it builds *)

\* The nodes, the parent mapping and the edges of the graph model of run r.
BuiltModel(r) ==
    LET g == graphs[runs[r].graph] IN [nodes |-> g.nodes, parent |-> g.parent, edges |-> g.edges]

Built(r) == r \in DOMAIN runs /\ runs[r].state # "threw"

\* C26: no step of a render() run, before or after its await and however it
\* ends, changes the options, the node, cluster and edge definitions or the
\* listeners, and any two runs that built their graph model built the same
\* nodes, parent mapping and edges.
C26_RenderReadsDefinitions ==
    [][last'.op = "render" =>
          /\ UNCHANGED <<options, nodes, clusters, edges, listeners>>
          /\ \A r1, r2 \in DOMAIN runs' :
                runs'[r1].state # "threw" /\ runs'[r2].state # "threw" =>
                    LET g1 == graphs'[runs'[r1].graph]
                        g2 == graphs'[runs'[r2].graph]
                    IN g1.nodes = g2.nodes /\ g1.parent = g2.parent /\ g1.edges = g2.edges]_vars

\* Two sequential runs, the first done before the second started, on
\* definitions with a cluster, a child and an edge.
C26_Witness ==
    /\ Built(1) /\ Built(2)
    /\ runs[1].state = "done" /\ runs[2].state = "done"
    /\ graphs[runs[1].graph].updatedBy = <<1>>
    /\ graphs[runs[2].graph].updatedBy = <<2>>
    /\ BuiltModel(2).edges # <<>>
    /\ BuiltModel(2).parent["A"] = "K"
    /\ BuiltModel(1) = BuiltModel(2)

\* C27: in every graph model render() built, a parent other than the top
\* level is the id of a cluster definition.
C27_ParentsAreClusters ==
    \A gi \in DOMAIN graphs :
        \A n \in DOMAIN graphs[gi].parent :
            graphs[gi].parent[n] # Root => graphs[gi].parent[n] \in Keys(clusters)

\* The most recent render() run completed its update phase.
LatestRunUpdated == runs # <<>> /\ runs[Len(runs)].state = "done"

\* C28: unless the most recent render() run completed its update phase,
\* saveSvg reports an error and starts no download.
C28_SaveSvgNeedsUpdatedRender ==
    [][last'.op = "saveSvg" /\ ~LatestRunUpdated =>
          last'.outcome = "error" /\ exported' = exported]_vars

\* C29: whatever the order the definitions were made in, the graph model a
\* run builds is the one their sets determine: its nodes are the defined
\* ids, each is under its declared parent (at the top level without one),
\* and its edges join the pairs of the edge definitions whose endpoints are
\* both defined.
C29_ModelIndependentOfOrder ==
    \A r \in DOMAIN runs :
        runs[r].state # "threw" =>
            LET g == graphs[runs[r].graph] IN
            /\ SeqToSet(g.nodes) = Defined
            /\ g.parent = [n \in Defined |->
                              IF DeclaredParents[n] = NoParent THEN Root
                              ELSE DeclaredParents[n]]
            /\ {<<g.edges[i].v, g.edges[i].w>> : i \in DOMAIN g.edges}
                 = {<<edges[i].from, edges[i].to>> :
                       i \in {k \in DOMAIN edges :
                                 edges[k].from \in Defined /\ edges[k].to \in Defined}}

\* Everything was defined child first: cluster K before its parent L, and
\* the run placed K under L and A under K and built both edges.
C29_Witness ==
    /\ clusters = <<[id |-> "K", parent |-> "L"], [id |-> "L", parent |-> NoParent]>>
    /\ nodes = <<[id |-> "B", parent |-> NoParent], [id |-> "A", parent |-> "K"]>>
    /\ Len(edges) = 2
    /\ Built(1) /\ runs[1].state = "done"
    /\ BuiltModel(1).parent["K"] = "L" /\ BuiltModel(1).parent["A"] = "K"
    /\ Len(BuiltModel(1).edges) = 2

\* The call just made was invalid: an addNode or (on a compound graph) an
\* addCluster without id, an addEdge without from or to, or an on() whose
\* callback was refused.
InvalidCall ==
    \/ last'.op = "addNode" /\ last'.id[1] = NoId
    \/ last'.op = "addCluster" /\ options.compound /\ last'.id[1] = NoId
    \/ last'.op = "addEdge" /\ NoId \in SeqToSet(last'.id)
    \/ last'.op = "on" /\ last'.outcome = "warned"

\* C30: an invalid call leaves the node, cluster and edge definitions, the
\* listeners and the options as they were; the invalid add calls throw.
C30_InvalidCallChangesNothing ==
    [][InvalidCall =>
          /\ last'.op # "on" => last'.outcome = "threw"
          /\ UNCHANGED <<options, nodes, clusters, edges, listeners>>]_vars

\* An addEdge without `to` threw on a library that holds a node, a cluster,
\* an edge and a listener.
C30_Witness ==
    /\ last = Call("addEdge", <<"A", NoId>>, "threw")
    /\ nodes # <<>> /\ clusters # <<>> /\ Len(edges) = 1 /\ listeners # <<>>

=============================================================================
